---- MODULE Spec2Model ----
(***************************************************************************)
(* A model of song_deduper.py: the glob cache (path catalog), the          *)
(* music_datas pickle (record store), delete_files, the rename-then-write  *)
(* update of the pickle in main, and the duplicate reports of              *)
(* process_music_datas / print_dupes.                                      *)
(*                                                                         *)
(* File names are sequences of one-character strings, so that slicing,     *)
(* lower(), strip() and sorting are computed rather than assumed.  A dict  *)
(* is a sequence of [k, v] records in insertion order.  A pickle file on   *)
(* disk is a record [st, val]: "absent", "partial" (opened for writing,    *)
(* dump not finished) or "complete" (val is the pickled value).            *)
(***************************************************************************)
EXTENDS Integers, Sequences, FiniteSets, TLC

\* ---------------------------------------------------------------- bounds
MaxRuns == 2
MaxDel == 2
MaxStore == 4

\* ------------------------------------------------------------ characters
Upper == <<"A", "M", "P">>
LowerOf == <<"a", "m", "p">>

\* str.lower() on one character
LowerChar(c) ==
  IF \E n \in 1..Len(Upper) : Upper[n] = c
  THEN LowerOf[CHOOSE n \in 1..Len(Upper) : Upper[n] = c]
  ELSE c

\* str.lower()
Lower(s) == [n \in 1..Len(s) |-> LowerChar(s[n])]

\* the code point of a character (the order list.sort() compares by)
Code(c) ==
  CASE c = "\n" -> 10
    [] c = " " -> 32
    [] c = "." -> 46
    [] c = "1" -> 49
    [] c = "2" -> 50
    [] c = "3" -> 51
    [] c = "4" -> 52
    [] c = "5" -> 53
    [] c = "A" -> 65
    [] c = "M" -> 77
    [] c = "P" -> 80
    [] c = "a" -> 97
    [] c = "b" -> 98
    [] c = "c" -> 99
    [] c = "d" -> 100
    [] c = "m" -> 109
    [] c = "p" -> 112
    [] c = "s" -> 115
    [] c = "t" -> 116
    [] c = "x" -> 120

\* s[-n:]
LastN(s, n) == IF Len(s) <= n THEN s ELSE SubSeq(s, Len(s) - n + 1, Len(s))

\* s.endswith(suffix)
EndsWith(s, suffix) == Len(s) >= Len(suffix) /\ LastN(s, Len(suffix)) = suffix

Whitespace == {" ", "\n"}

RECURSIVE LStrip(_)
LStrip(s) == IF s # <<>> /\ Head(s) \in Whitespace THEN LStrip(Tail(s)) ELSE s

RECURSIVE RStrip(_)
RStrip(s) ==
  IF s # <<>> /\ s[Len(s)] \in Whitespace THEN RStrip(SubSeq(s, 1, Len(s) - 1)) ELSE s

\* str.strip()
Strip(s) == RStrip(LStrip(s))

\* s < t for Python strings
RECURSIVE StrLess(_, _)
StrLess(s, t) ==
  IF t = <<>> THEN FALSE
  ELSE IF s = <<>> THEN TRUE
  ELSE IF Head(s) = Head(t) THEN StrLess(Tail(s), Tail(t))
  ELSE Code(Head(s)) < Code(Head(t))

\* ------------------------------------------------------------ file names
DotMp3 == <<".", "m", "p", "3">>
DotM4a == <<".", "m", "4", "a">>

FileA == <<"b">> \o DotMp3
FileB == <<"a", ".", "M", "P", "3">>
FileC == <<"c">> \o DotM4a
FileD == <<"d", "m", "p", "3">>

\* every path that can exist under the music directory in this model
AllFiles == {FileA, FileB, FileC, FileD}

\* --------------------------------------------------------------- helpers
Range(s) == {s[n] : n \in 1..Len(s)}

\* a variant that forgets the dot: the last three characters decide
SuffixWithoutDot(filename) == Lower(LastN(filename, 3)) \in {Tail(DotMp3), Tail(DotM4a)}

has_supported_file_extension(filename) == Lower(LastN(filename, 4)) \in {DotMp3, DotM4a}

\* list.sort() of a set of distinct strings
RECURSIVE SortStrings(_)
SortStrings(S) ==
  IF S = {} THEN <<>>
  ELSE LET least == CHOOSE x \in S : \A y \in S \ {x} : StrLess(x, y)
       IN <<least>> \o SortStrings(S \ {least})

\* ----------------------------------------------------------------- dicts
DictKeys(d) == {d[n].k : n \in 1..Len(d)}

DictHas(d, key) == key \in DictKeys(d)

DictGet(d, key) == d[CHOOSE n \in 1..Len(d) : d[n].k = key].v

\* d[key] = val
DictSet(d, key, val) ==
  IF DictHas(d, key)
  THEN [n \in 1..Len(d) |-> IF d[n].k = key THEN [k |-> key, v |-> val] ELSE d[n]]
  ELSE Append(d, [k |-> key, v |-> val])

\* del d[key]
DictDel(d, key) == SelectSeq(d, LAMBDA e : e.k # key)

\* defaultdict(list): d[key].append(x)
DictAppend(d, key, x) ==
  IF DictHas(d, key) THEN DictSet(d, key, Append(DictGet(d, key), x))
  ELSE Append(d, [k |-> key, v |-> <<x>>])

\* ------------------------------------------------------- file contents
\* What the hasher, the fingerprinter and the tag reader return for a file
\* content.  Contents 1 and 2 carry the same (artist, title) with different
\* bytes (a re-encode); content 3 has no artist tag.
Contents == 1..3

Md5Of(c) == <<"h", c>>

FingerprintOf(c) == <<"fp", c>>

ArtistOf(c) == IF c = 3 THEN "None" ELSE "A"

TitleOf(c) == IF c = 3 THEN "Y" ELSE "X"

\* MusicData(artist, ..., title, ..., fingerprint, md5), restricted to the
\* fields the program reads back
MusicData(c) ==
  [artist |-> ArtistOf(c), title |-> TitleOf(c),
   fingerprint |-> FingerprintOf(c), md5 |-> Md5Of(c)]

\* the content of each audio file of the library: FileB is a byte copy of
\* FileA, FileC a re-encode of the same song
ContentOf(f) == IF f = FileC THEN 2 ELSE 1

\* ------------------------------------------------------------ pickles
Absent == [st |-> "absent", val |-> <<>>]

Partial == [st |-> "partial", val |-> <<>>]

Pickled(x) == [st |-> "complete", val |-> x]

\* ---------------------------------------------------------- delete list
\* The lines a delete file can hold: one per path (the line for FileA
\* carries surrounding blanks) and the empty line.  delete_files reads the
\* file line by line, so a line is an input of the iteration that reads it,
\* and the file holds at most MaxDel lines.
LineOf(f) == IF f = FileA THEN <<" ">> \o f \o <<" ", "\n">> ELSE f \o <<"\n">>

Lines == {LineOf(f) : f \in AllFiles} \cup {<<"\n">>}

\* ------------------------------------------------------------- reports
\* process_music_datas, first half: hashes[info.md5].append(fname)
Hashes(md) ==
  LET acc[n \in 0..Len(md)] ==
        IF n = 0 THEN <<>>
        ELSE DictAppend(acc[n - 1], md[n].v.md5, md[n].k)
  IN acc[Len(md)]

\* process_music_datas, first half: tags[(info.artist, info.title)].append(fname)
Tags(md) ==
  LET acc[n \in 0..Len(md)] ==
        IF n = 0 THEN <<>>
        ELSE DictAppend(acc[n - 1], <<md[n].v.artist, md[n].v.title>>, md[n].k)
  IN acc[Len(md)]

\* a variant that skips only empty buckets
SkipsEmptyOnly(fnames) == Len(fnames) = 0

\* the buckets print_dupes skips
SkippedBucket(fnames) == Len(fnames) = 1

\* a variant that appends the fingerprint to prev_fingerprints before the
\* comparisons, so that each name is also compared with itself
GroupLinesAppendFirst(fnames, md) ==
  LET step[n \in 0..Len(fnames)] ==
        IF n = 0 THEN [prev |-> <<>>, lines |-> <<>>]
        ELSE LET before == step[n - 1]
                 name == fnames[n]
                 mine == DictGet(md, name).fingerprint
                 prev == Append(before.prev, mine)
                 scores == [j \in 1..Len(prev) |-> <<prev[j], mine>>]
                 dashes == Len(fnames) - Len(prev)
             IN [prev |-> prev,
                 lines |-> Append(before.lines,
                             [fname |-> name, scores |-> scores, dashes |-> dashes])]
  IN step[Len(fnames)].lines

\* One pass of print_dupes' inner loop over the first n names of a bucket:
\* prev is prev_fingerprints, lines the lines printed so far.  A line holds
\* the name, one score per earlier fingerprint (a score is kept as the pair
\* of fingerprints handed to compare_fingerprints) and the number of "----".
GroupLines(fnames, md) ==
  LET step[n \in 0..Len(fnames)] ==
        IF n = 0 THEN [prev |-> <<>>, lines |-> <<>>]
        ELSE LET before == step[n - 1]
                 name == fnames[n]
                 mine == DictGet(md, name).fingerprint
                 scores == [j \in 1..Len(before.prev) |-> <<before.prev[j], mine>>]
                 dashes == Len(fnames) - Len(before.prev) - 1
             IN [prev |-> Append(before.prev, mine),
                 lines |-> Append(before.lines,
                             [fname |-> name, scores |-> scores, dashes |-> dashes])]
  IN step[Len(fnames)].lines

\* print_dupes: one printed group per bucket that is not skipped
print_dupes(dupes_dict, md) ==
  LET kept == SelectSeq(dupes_dict, LAMBDA e : ~SkippedBucket(e.v))
  IN [g \in 1..Len(kept) |->
        [key |-> kept[g].k, fnames |-> kept[g].v, lines |-> GroupLines(kept[g].v, md)]]

\* process_music_datas: the hash report, then the tag report
process_music_datas(md) ==
  [hashes |-> print_dupes(Hashes(md), md), tags |-> print_dupes(Tags(md), md)]

NoReport == [hashes |-> <<>>, tags |-> <<>>]

\* ------------------------------------------------------------- deletion
\* a variant in which the line read last decides what delete_files returns
LastLineDecides(before, removedHere) == removedHere

\* changed after an iteration: set once an entry is removed, never cleared
NextChanged(before, removedHere) == before \/ removedHere

\* a variant that removes the entry only after unlinking the file
delete_line_if_unlinked(line, d, md) ==
  LET name == Strip(line)
      unlink == name \in d /\ has_supported_file_extension(name)
      known == unlink /\ DictHas(md, name)
  IN [fname |-> name,
      unlinked |-> unlink,
      disk |-> IF unlink THEN d \ {name} ELSE d,
      removed |-> known,
      music_datas |-> IF known THEN DictDel(md, name) ELSE md,
      warns |-> (IF unlink THEN <<>> ELSE <<[w |-> "Did not try to delete", f |-> name]>>)
                \o (IF known THEN <<>> ELSE <<[w |-> "Not in MusicData", f |-> name]>>)]

\* One iteration of delete_files' loop over line, with the files on disk d
\* and the dict md: what is unlinked, what is removed from the dict, and the
\* warnings printed.
delete_line(line, d, md) ==
  LET name == Strip(line)
      unlink == name \in d /\ has_supported_file_extension(name)
      known == DictHas(md, name)
  IN [fname |-> name,
      unlinked |-> unlink,
      disk |-> IF unlink THEN d \ {name} ELSE d,
      removed |-> known,
      music_datas |-> IF known THEN DictDel(md, name) ELSE md,
      warns |-> (IF unlink THEN <<>> ELSE <<[w |-> "Did not try to delete", f |-> name]>>)
                \o (IF known THEN <<>> ELSE <<[w |-> "Not in MusicData", f |-> name]>>)]

\* ---------------------------------------------------------------- state
VARIABLES
  disk,             \* the files that exist under the music directory
  catBlob,          \* <prefix>glob_cache.pickle
  storeBlob,        \* <prefix>music_datas.pickle
  oldBlob,          \* <prefix>music_datas.pickle.old
  status,           \* "idle", "running", "done", "failed" or "killed"
  pc,               \* where the run is (kept when the run ends)
  err,              \* the exception that ended a failed run
  runs,             \* the number of runs started
  files_to_delete,  \* whether this run was given a delete file (-d)
  files,            \* get_music_datas' files
  music_datas,      \* the dict in memory
  idx,              \* the position of the running loop
  fname,            \* delete_files' fname: the stripped line read last
  changed,          \* delete_files' changed
  warns,            \* what delete_files' latest iteration printed to stderr
  out,              \* what process_music_datas printed
  unlinked,         \* the files this run's delete_files unlinked
  removed,          \* the keys this run's delete_files removed from the dict
  rewrote,          \* whether this run rewrote the store pickle after deleting
  dropped           \* the keys that rewrites removed from the store pickle since
                    \* it was built

vars ==
  <<disk, catBlob, storeBlob, oldBlob, status, pc, err, runs, files_to_delete,
    files, music_datas, idx, fname, changed, warns, out, unlinked, removed, rewrote,
    dropped>>

persisted == <<catBlob, storeBlob, oldBlob, dropped>>

memory ==
  <<files, music_datas, idx, fname, changed, warns, out, unlinked, removed, rewrote>>

FreshMemory ==
  /\ files = <<>>
  /\ music_datas = <<>>
  /\ idx = 0
  /\ fname = <<>>
  /\ changed = FALSE
  /\ warns = <<>>
  /\ out = NoReport
  /\ unlinked = {}
  /\ removed = {}
  /\ rewrote = FALSE

Init ==
  /\ disk = AllFiles
  /\ catBlob = Absent
  /\ storeBlob = Absent
  /\ oldBlob = Absent
  /\ dropped = {}
  /\ status = "idle"
  /\ pc = "idle"
  /\ err = "none"
  /\ runs = 0
  /\ files_to_delete = FALSE
  /\ FreshMemory

Running(at) == status = "running" /\ pc = at

\* an uncaught exception ends the run where it is
Raise(e) == status' = "failed" /\ err' = e /\ pc' = pc

\* main, after get_music_datas has returned
AfterStore == IF files_to_delete THEN "delete" ELSE "process"

\* ---------------------------------------------------------- environment
\* The music directory changes between runs only: within a run the files
\* change through delete_files alone.
\* Between runs the user copies a file into the music directory ...
AddFile ==
  /\ status = "idle"
  /\ \E f \in AllFiles \ disk : disk' = disk \cup {f}
  /\ UNCHANGED <<persisted, status, pc, err, runs, files_to_delete, memory>>

\* ... or removes one by hand.
RemoveFile ==
  /\ status = "idle"
  /\ \E f \in disk : disk' = disk \ {f}
  /\ UNCHANGED <<persisted, status, pc, err, runs, files_to_delete, memory>>

\* __main__: main(args.path, args.deletefile, fname_prefix)
StartRun ==
  /\ status = "idle"
  /\ runs < MaxRuns
  /\ files_to_delete' \in BOOLEAN
  /\ status' = "running"
  /\ pc' = "get_music_datas"
  /\ runs' = runs + 1
  /\ UNCHANGED <<disk, persisted, err, memory>>

\* ------------------------------------------------------ get_music_datas
\* pickle.load of an existing, complete store pickle
LoadStore ==
  /\ Running("get_music_datas")
  /\ storeBlob.st = "complete"
  /\ music_datas' = storeBlob.val
  /\ pc' = AfterStore
  /\ idx' = 1
  /\ UNCHANGED <<disk, persisted, status, err, runs, files_to_delete, files,
                 fname, changed, warns, out, unlinked, removed, rewrote>>

\* pickle.load of a truncated pickle raises; only FileNotFoundError is caught
LoadStoreFails ==
  /\ Running("get_music_datas")
  /\ storeBlob.st = "partial"
  /\ Raise("UnpicklingError")
  /\ UNCHANGED <<disk, persisted, runs, files_to_delete, memory>>

\* except FileNotFoundError: files = glob_cache(path, fname_prefix)
StoreMissing ==
  /\ Running("get_music_datas")
  /\ storeBlob.st = "absent"
  /\ pc' = "glob_cache"
  /\ UNCHANGED <<disk, persisted, status, err, runs, files_to_delete, memory>>

\* ----------------------------------------------------------- glob_cache
\* the result of the glob, filtered and sorted
ScanResult(d) == SortStrings({f \in d : has_supported_file_extension(f)})

\* a variant that globs again although the catalog pickle exists
GlobRescan ==
  /\ Running("glob_cache")
  /\ catBlob.st = "complete"
  /\ files' = ScanResult(disk)
  /\ pc' = "scan"
  /\ idx' = 1
  /\ UNCHANGED <<disk, persisted, status, err, runs, files_to_delete,
                 music_datas, fname, changed, warns, out, unlinked, removed, rewrote>>

\* glob_cache with an existing catalog pickle: files = pickle.load(f)
GlobLoad ==
  /\ Running("glob_cache")
  /\ catBlob.st = "complete"
  /\ files' = catBlob.val
  /\ pc' = "scan"
  /\ idx' = 1
  /\ UNCHANGED <<disk, persisted, status, err, runs, files_to_delete,
                 music_datas, fname, changed, warns, out, unlinked, removed, rewrote>>

GlobLoadFails ==
  /\ Running("glob_cache")
  /\ catBlob.st = "partial"
  /\ Raise("UnpicklingError")
  /\ UNCHANGED <<disk, persisted, runs, files_to_delete, memory>>

\* except FileNotFoundError: glob, filter, sort, open(fname, 'wb')
GlobScan ==
  /\ Running("glob_cache")
  /\ catBlob.st = "absent"
  /\ files' = ScanResult(disk)
  /\ catBlob' = Partial
  /\ pc' = "glob_dump"
  /\ UNCHANGED <<disk, storeBlob, oldBlob, dropped, status, err, runs, files_to_delete,
                 music_datas, idx, fname, changed, warns, out, unlinked, removed,
                 rewrote>>

\* pickle.dump(files, f); return files
GlobDump ==
  /\ Running("glob_dump")
  /\ catBlob' = Pickled(files)
  /\ pc' = "scan"
  /\ idx' = 1
  /\ UNCHANGED <<disk, storeBlob, oldBlob, dropped, status, err, runs, files_to_delete,
                 files, music_datas, fname, changed, warns, out, unlinked, removed, rewrote>>

\* the dump fails part way (disk full)
GlobDumpFails ==
  /\ Running("glob_dump")
  /\ Raise("OSError")
  /\ UNCHANGED <<disk, persisted, runs, files_to_delete, memory>>

\* ------------------------------------------------ add_song_to_musicdata
IsMp3(song_file) == EndsWith(Lower(song_file), DotMp3)

IsM4a(song_file) == EndsWith(Lower(song_file), DotM4a)

\* one of the two branches of add_song_to_musicdata assigns md
HasTagReader(song_file) == IsMp3(song_file) \/ IsM4a(song_file)

\* The exceptions add_song_to_musicdata can raise on song_file: md5 opens
\* the file; fingerprint_file and the tag readers fail on a file they cannot
\* decode; md is unbound when neither branch assigns it.
SongErrors(song_file, d) ==
  IF song_file \notin d THEN {"FileNotFoundError"}
  ELSE IF ~HasTagReader(song_file) THEN {"UnboundLocalError"}
  ELSE {"FingerprintGenerationError", "MutagenError"}

\* a variant that dumps the dict after every song instead of once at the end
AddSongAndDump ==
  /\ Running("scan")
  /\ idx <= Len(files)
  /\ files[idx] \in disk
  /\ HasTagReader(files[idx])
  /\ music_datas' = DictSet(music_datas, files[idx], MusicData(ContentOf(files[idx])))
  /\ storeBlob' = Pickled(music_datas')
  /\ idx' = idx + 1
  /\ UNCHANGED <<disk, catBlob, oldBlob, dropped, status, pc, err, runs,
                 files_to_delete, files, fname, changed, warns, out, unlinked,
                 removed, rewrote>>

\* one iteration of "for song_file in files" that returns normally
AddSong ==
  /\ Running("scan")
  /\ idx <= Len(files)
  /\ files[idx] \in disk
  /\ HasTagReader(files[idx])
  /\ music_datas' = DictSet(music_datas, files[idx], MusicData(ContentOf(files[idx])))
  /\ idx' = idx + 1
  /\ UNCHANGED <<disk, persisted, status, pc, err, runs, files_to_delete, files,
                 fname, changed, warns, out, unlinked, removed, rewrote>>

\* one iteration that raises: nothing in get_music_datas catches it
AddSongFails ==
  /\ Running("scan")
  /\ idx <= Len(files)
  /\ \E e \in SongErrors(files[idx], disk) : Raise(e)
  /\ UNCHANGED <<disk, persisted, runs, files_to_delete, memory>>

\* the loop is over: with open(fname, 'wb') as f
StoreOpen ==
  /\ Running("scan")
  /\ idx > Len(files)
  /\ storeBlob' = Partial
  /\ dropped' = {}
  /\ pc' = "store_dump"
  /\ UNCHANGED <<disk, catBlob, oldBlob, status, err, runs, files_to_delete, memory>>

\* pickle.dump(musicdata, f); return musicdata
StoreDump ==
  /\ Running("store_dump")
  /\ storeBlob' = Pickled(music_datas)
  /\ pc' = AfterStore
  /\ idx' = 1
  /\ UNCHANGED <<disk, catBlob, oldBlob, dropped, status, err, runs, files_to_delete, files,
                 music_datas, fname, changed, warns, out, unlinked, removed, rewrote>>

StoreDumpFails ==
  /\ Running("store_dump")
  /\ Raise("OSError")
  /\ UNCHANGED <<disk, persisted, runs, files_to_delete, memory>>

\* --------------------------------------------------------- delete_files
\* one iteration of "for line in open(fname)", on the line it reads
DeleteLine ==
  /\ Running("delete")
  /\ idx <= MaxDel
  /\ \E line \in Lines :
       LET r == delete_line(line, disk, music_datas)
       IN /\ fname' = r.fname
          /\ disk' = r.disk
          /\ music_datas' = r.music_datas
          /\ changed' = NextChanged(changed, r.removed)
          /\ warns' = r.warns
          /\ unlinked' = IF r.unlinked THEN unlinked \cup {r.fname} ELSE unlinked
          /\ removed' = IF r.removed THEN removed \cup {r.fname} ELSE removed
  /\ idx' = idx + 1
  /\ UNCHANGED <<persisted, status, pc, err, runs, files_to_delete, files, out, rewrote>>

\* os.unlink raises (a read-only file): nothing catches it
UnlinkFails ==
  /\ Running("delete")
  /\ idx <= MaxDel
  /\ \E line \in Lines : delete_line(line, disk, music_datas).unlinked
  /\ Raise("PermissionError")
  /\ UNCHANGED <<disk, persisted, runs, files_to_delete, memory>>

\* the file has no more lines: return changed; main: if delete_files(...)
DeleteReturns ==
  /\ Running("delete")
  /\ pc' = IF changed THEN "rename" ELSE "process"
  /\ UNCHANGED <<disk, persisted, status, err, runs, files_to_delete, memory>>

\* ------------------------------------------------- main: the re-persist
\* a variant that goes on to the write without renaming
RenameSkipped ==
  /\ Running("rename")
  /\ pc' = "reopen"
  /\ UNCHANGED <<disk, persisted, status, err, runs, files_to_delete, memory>>

\* os.rename(fname, fname + '.old'): replaces an existing .old
RenameToOld ==
  /\ Running("rename")
  /\ oldBlob' = storeBlob
  /\ storeBlob' = Absent
  /\ pc' = "reopen"
  /\ UNCHANGED <<disk, catBlob, dropped, status, err, runs, files_to_delete, memory>>

\* with open(fname, 'wb') as f
Reopen ==
  /\ Running("reopen")
  /\ storeBlob' = Partial
  /\ pc' = "redump"
  /\ UNCHANGED <<disk, catBlob, oldBlob, dropped, status, err, runs, files_to_delete, memory>>

\* open(fname, 'wb') raises (no permission, disk full)
ReopenFails ==
  /\ Running("reopen")
  /\ Raise("OSError")
  /\ UNCHANGED <<disk, persisted, runs, files_to_delete, memory>>

\* pickle.dump(music_datas, f)
Redump ==
  /\ Running("redump")
  /\ storeBlob' = Pickled(music_datas)
  /\ rewrote' = TRUE
  /\ dropped' = dropped \cup removed
  /\ pc' = "process"
  /\ UNCHANGED <<disk, catBlob, oldBlob, status, err, runs, files_to_delete, files,
                 music_datas, idx, fname, changed, warns, out, unlinked, removed>>

RedumpFails ==
  /\ Running("redump")
  /\ Raise("OSError")
  /\ UNCHANGED <<disk, persisted, runs, files_to_delete, memory>>

\* ------------------------------------------------------ main: the reports
\* process_music_datas(music_datas)
Process ==
  /\ Running("process")
  /\ out' = process_music_datas(music_datas)
  /\ pc' = "other_platform"
  /\ UNCHANGED <<disk, persisted, status, err, runs, files_to_delete, files,
                 music_datas, idx, fname, changed, warns, unlinked, removed, rewrote>>

\* the other platform's pickle is there: its reports read nothing of ours
\* but music_datas, and write nothing
OtherPlatform ==
  /\ Running("other_platform")
  /\ status' = "done"
  /\ UNCHANGED <<disk, persisted, pc, err, runs, files_to_delete, memory>>

\* open(other_platform, 'rb') raises when that pickle is not there
OtherPlatformMissing ==
  /\ Running("other_platform")
  /\ Raise("FileNotFoundError")
  /\ UNCHANGED <<disk, persisted, runs, files_to_delete, memory>>

\* ------------------------------------------------------------- the process
\* the process is killed where it is
Kill ==
  /\ status = "running"
  /\ status' = "killed"
  /\ UNCHANGED <<disk, persisted, pc, err, runs, files_to_delete, memory>>

\* the process is gone: only the disk and the pickles are left
Exit ==
  /\ status \in {"done", "failed", "killed"}
  /\ status' = "idle"
  /\ pc' = "idle"
  /\ err' = "none"
  /\ files_to_delete' = FALSE
  /\ files' = <<>>
  /\ music_datas' = <<>>
  /\ idx' = 0
  /\ fname' = <<>>
  /\ changed' = FALSE
  /\ warns' = <<>>
  /\ out' = NoReport
  /\ unlinked' = {}
  /\ removed' = {}
  /\ rewrote' = FALSE
  /\ UNCHANGED <<disk, persisted, runs>>

Next ==
  \/ AddFile \/ RemoveFile \/ StartRun
  \/ LoadStore \/ LoadStoreFails \/ StoreMissing
  \/ GlobLoad \/ GlobLoadFails \/ GlobScan \/ GlobDump \/ GlobDumpFails
  \/ AddSong \/ AddSongFails \/ StoreOpen \/ StoreDump \/ StoreDumpFails
  \/ DeleteLine \/ UnlinkFails \/ DeleteReturns
  \/ RenameToOld \/ Reopen \/ ReopenFails \/ Redump \/ RedumpFails
  \/ Process \/ OtherPlatform \/ OtherPlatformMissing
  \/ Kill \/ Exit

Spec == Init /\ [][Next]_vars

\* ------------------------------------------------- the reports alone
\* A store pickle is loaded verbatim, so the reports can meet any dict:
\* every order of up to MaxStore names, each with any of the contents.
Digits == <<"1", "2", "3", "4", "5", "6", "7", "8", "9">>

StoreName(n) == <<"s", Digits[n]>> \o DotMp3

\* a dict of m entries: the names ks, in this order, with the contents cs
StoreOf(m, ks, cs) == [n \in 1..m |-> [k |-> StoreName(ks[n]), v |-> MusicData(cs[n])]]

Distinct(m, ks) == \A a, b \in 1..m : a # b => ks[a] # ks[b]

\* main has loaded some store and is about to print the reports
InitReport ==
  /\ disk = {}
  /\ catBlob = Absent
  /\ \E m \in 0..MaxStore :
       \E ks \in [1..m -> 1..MaxStore] :
         /\ Distinct(m, ks)
         /\ \E cs \in [1..m -> Contents] : music_datas = StoreOf(m, ks, cs)
  /\ storeBlob = Pickled(music_datas)
  /\ oldBlob = Absent
  /\ dropped = {}
  /\ status = "running"
  /\ pc = "process"
  /\ err = "none"
  /\ runs = 1
  /\ files_to_delete = FALSE
  /\ files = <<>>
  /\ idx = 1
  /\ fname = <<>>
  /\ changed = FALSE
  /\ warns = <<>>
  /\ out = NoReport
  /\ unlinked = {}
  /\ removed = {}
  /\ rewrote = FALSE

NextReport == Process \/ OtherPlatform

SpecReport == InitReport /\ [][NextReport]_vars

\* ================================================================ claims
\* the paths of the model with a recognized audio extension (.mp3 or .m4a
\* in any case)
AudioFiles == {FileA, FileB, FileC}

\* delete_files has returned, or an iteration of it has ended
AfterDelete == {"delete", "rename", "reopen", "redump", "process", "other_platform"}

InDeleteRun == files_to_delete /\ pc \in AfterDelete

NotDeleted(w) == w.w = "Did not try to delete"

\* ------------------------------------------------------------------- C1
\* C1, as stated: a store key of the delete list loses its store entry if
\* and only if this call deleted its file; a key that fails the existence
\* or extension check keeps its entry.
C1_RemovedIffUnlinked ==
  InDeleteRun =>
    /\ removed \subseteq unlinked
    /\ \A f \in unlinked : ~DictHas(music_datas, f)

\* C1, amended: every listed path that is a store key loses its store entry,
\* whether or not its file was deleted by this call; in particular the path
\* read last, every path removed before it and every path deleted from disk
\* are absent from the dict.
C1_RemovedWhenListed ==
  InDeleteRun =>
    /\ idx > 1 => ~DictHas(music_datas, fname)
    /\ \A f \in removed \cup unlinked : ~DictHas(music_datas, f)
    /\ changed <=> removed # {}

\* an entry was removed although its file was not deleted by this call
C1_Witness ==
  /\ InDeleteRun
  /\ fname \in removed
  /\ fname \notin unlinked
  /\ warns # <<>>

\* ------------------------------------------------------------------- C2
\* C2: while a run is going, a file leaves the disk only in an iteration of
\* delete_files, and it is the path read from the delete file, which existed
\* and has a recognized audio extension; an iteration on any other path
\* leaves the disk as it is, prints the warning and goes on with the loop.
C2_DeleteStep ==
  /\ (status = "running" /\ disk' # disk) =>
       /\ pc = "delete"
       /\ fname' \in {Strip(l) : l \in Lines}
       /\ fname' \in disk
       /\ fname' \in AudioFiles
       /\ disk' = disk \ {fname'}
  /\ (Running("delete") /\ idx' = idx + 1 /\ ~(fname' \in disk /\ fname' \in AudioFiles)) =>
       /\ disk' = disk
       /\ \E n \in 1..Len(warns') : NotDeleted(warns'[n]) /\ warns'[n].f = fname'
       /\ status' = "running"
       /\ pc' = "delete"

\* C2: every step satisfies C2_DeleteStep: only listed, existing audio files
\* are deleted, and a line that fails a check is skipped with a warning.
C2_OnlyListedAudioFilesDeleted == [][C2_DeleteStep]_vars

\* a path was skipped with a warning after another was deleted, in one batch
C2_Witness ==
  /\ Running("delete")
  /\ unlinked # {}
  /\ fname \notin unlinked
  /\ \E n \in 1..Len(warns) : NotDeleted(warns[n])
  /\ fname \in disk

\* ------------------------------------------------------------------- C3
DelAll(md, keys) == SelectSeq(md, LAMBDA e : e.k \notin keys)

\* C3: from the rename on, whether the run goes on, fails or is killed, the
\* .old pickle holds the complete store that was persisted before (the dict
\* in memory plus the removed entries), and at every point of the update the
\* store pickle or the .old pickle is complete.
C3_LastGoodKept ==
  /\ (pc \in {"reopen", "redump"} \/ rewrote) =>
       /\ oldBlob.st = "complete"
       /\ DictKeys(oldBlob.val) = DictKeys(music_datas) \cup removed
       /\ DelAll(oldBlob.val, removed) = music_datas
  /\ (pc \in {"rename", "reopen", "redump"} \/ rewrote) =>
       storeBlob.st = "complete" \/ oldBlob.st = "complete"
  /\ oldBlob.st # "partial"

\* the run was killed during the write: only the .old pickle is complete
C3_Witness ==
  /\ status = "killed"
  /\ pc = "redump"
  /\ storeBlob.st = "partial"
  /\ oldBlob.st = "complete"
  /\ removed # {}

\* ------------------------------------------------------------------- C4
\* C4, as stated: a failure of the write never leaves the backup renamed
\* aside with no complete store under the primary name.
C4_NoFailureAfterRename ==
  (status = "failed" /\ pc \in {"reopen", "redump"}) => storeBlob.st = "complete"

\* ------------------------------------------------------------------- C5
\* C5, as stated: a per-file failure (vanished file, fingerprint or tag
\* error) does not end the build.
C5_PerFileFailureSkips == ~(status = "failed" /\ pc = "scan")

\* ------------------------------------------------------------------- C6
BuildSteps == {"glob_cache", "glob_dump", "scan", "store_dump"}

\* C6, as stated: a build that was killed or failed before returning leaves
\* no store pickle, partial or otherwise.
C6_NoBlobBeforeReturn ==
  (status \in {"killed", "failed"} /\ pc \in BuildSteps) => storeBlob.st = "absent"

\* C6, amended: until the final write begins there is no store pickle; during
\* the final write there is only an incomplete one, which no run loads; and
\* a complete store pickle holds every path of the catalog except the keys
\* that a rewrite after a deletion removed, and so does the dict of a run
\* that built or loaded it, except the keys the run itself removed.
C6_NoIncompleteStoreLoaded ==
  /\ pc \in {"glob_cache", "glob_dump", "scan"} => storeBlob.st = "absent"
  /\ pc = "store_dump" => storeBlob.st = "partial"
  /\ storeBlob.st = "complete" =>
       /\ catBlob.st = "complete"
       /\ DictKeys(storeBlob.val) = Range(catBlob.val) \ dropped
  /\ (status = "running" /\ pc \in AfterDelete \cup {"store_dump"}) =>
       DictKeys(music_datas) = Range(catBlob.val) \ (dropped \cup removed)

\* a build was killed after it had processed a path and before the write
C6_Witness ==
  /\ status = "killed"
  /\ pc = "scan"
  /\ music_datas # <<>>
  /\ idx <= Len(files)
  /\ storeBlob.st = "absent"

\* ------------------------------------------------------------------- C7
Reported == pc = "other_platform"

\* the position of a key in the dict: its place in the iteration order
PosIn(md, f) == CHOOSE n \in 1..Len(md) : md[n].k = f

TogetherIn(report, f1, f2) ==
  \E g \in 1..Len(report) : {f1, f2} \subseteq Range(report[g].fnames)

\* report is the clustering of md by key (a function on the keys of md)
ClusterOf(report, md, key) ==
  /\ \A g \in 1..Len(report) :
       LET names == report[g].fnames
       IN /\ Len(names) >= 2
          /\ \A n \in 1..Len(names) :
               names[n] \in DictKeys(md) /\ key[names[n]] = report[g].key
          /\ \A a, b \in 1..Len(names) :
               a < b => PosIn(md, names[a]) < PosIn(md, names[b])
  /\ \A f \in DictKeys(md) :
       Cardinality({g \in 1..Len(report) : f \in Range(report[g].fnames)}) <= 1
  /\ \A f1, f2 \in DictKeys(md) :
       (f1 # f2 /\ ~TogetherIn(report, f1, f2)) => key[f1] # key[f2]

HashKey(md) == [f \in DictKeys(md) |-> DictGet(md, f).md5]

TagKey(md) == [f \in DictKeys(md) |-> <<DictGet(md, f).artist, DictGet(md, f).title>>]

\* C7: both reports hold exactly the buckets of two or more paths: every
\* group has at least 2 members with the group's key, in store iteration
\* order; a path is in at most one group per key; two paths that are not
\* together in a group have distinct keys.
C7_ReportsAreClusters ==
  Reported =>
    /\ ClusterOf(out.hashes, music_datas, HashKey(music_datas))
    /\ ClusterOf(out.tags, music_datas, TagKey(music_datas))

\* a store with a hash group, a larger tag group and a path in no group
C7_Witness ==
  /\ Reported
  /\ Len(out.hashes) = 1
  /\ Len(out.tags) = 1
  /\ Len(out.hashes[1].fnames) = 2
  /\ Len(out.tags[1].fnames) = 3
  /\ Len(music_datas) = 4

\* ------------------------------------------------------------------- C8
TotalScores(lines) ==
  LET sum[n \in 0..Len(lines)] ==
        IF n = 0 THEN 0 ELSE sum[n - 1] + Len(lines[n].scores)
  IN sum[Len(lines)]

Triangular(n) == (n * (n - 1)) \div 2

\* the lines of a group are the lower triangle of comparisons in group order
LowerTriangle(group, md) ==
  LET names == group.fnames
      n == Len(names)
  IN /\ Len(group.lines) = n
     /\ \A i \in 1..n :
          /\ group.lines[i].fname = names[i]
          /\ Len(group.lines[i].scores) = i - 1
          /\ \A j \in 1..(i - 1) :
               group.lines[i].scores[j] =
                 <<DictGet(md, names[j]).fingerprint, DictGet(md, names[i]).fingerprint>>
     /\ TotalScores(group.lines) = Triangular(n)

\* C8: in every group of either report, the i-th path (0-indexed) gets
\* exactly i scores, one against each path listed before it, in order, and
\* none else; a group of n paths gets 0 + 1 + ... + (n-1) scores.
C8_ScoresAreLowerTriangle ==
  Reported =>
    /\ \A g \in 1..Len(out.hashes) : LowerTriangle(out.hashes[g], music_datas)
    /\ \A g \in 1..Len(out.tags) : LowerTriangle(out.tags[g], music_datas)

\* a group of four paths was reported, with its six scores
C8_Witness ==
  /\ Reported
  /\ \E g \in 1..Len(out.tags) :
       /\ Len(out.tags[g].fnames) = 4
       /\ TotalScores(out.tags[g].lines) = 6
       /\ out.tags[g].lines[1].scores = <<>>

\* ------------------------------------------------------------------- C9
\* C9: a complete catalog pickle is never written again, and a glob_cache
\* that finds it returns its value, whatever is on disk.
C9_Step ==
  /\ catBlob.st = "complete" => catBlob' = catBlob
  /\ (Running("glob_cache") /\ pc' = "scan") => files' = catBlob.val

\* C9: every step satisfies C9_Step: the persisted catalog is returned
\* verbatim and never rewritten.
C9_CatalogIsStale == [][C9_Step]_vars

\* a later run got the persisted catalog although the disk now differs:
\* a new audio file is missing from it
C9_Witness ==
  /\ Running("scan")
  /\ runs > 1
  /\ files = catBlob.val
  /\ \E f \in disk \cap AudioFiles : f \notin Range(files)

\* ------------------------------------------------------------------ C10
InReport(report, f) == \E g \in 1..Len(report) : f \in Range(report[g].fnames)

\* C10: once delete_files and the re-persist are over, the store pickle
\* holds the dict in memory; changed is true exactly when an entry was
\* removed, and the pickle was rewritten exactly then; no removed path is in
\* a reported group.
C10_PickleMatchesMemory ==
  pc \in {"process", "other_platform"} =>
    /\ storeBlob = Pickled(music_datas)
    /\ changed <=> removed # {}
    /\ rewrote <=> changed
    /\ \A f \in removed : ~InReport(out.hashes, f) /\ ~InReport(out.tags, f)

\* a run that removed an entry whose file it did not delete, rewrote the
\* pickle, warned about its last line and still reported a group
C10_Witness ==
  /\ pc = "other_platform"
  /\ rewrote
  /\ removed \ unlinked # {}
  /\ fname \notin removed
  /\ out.tags # <<>>

====
